---- MODULE Spec2Model ----
(***************************************************************************)
(* Model of the aggregation and enrichment pipeline of the decentragri     *)
(* consumer server: the image resolver (BuildIpfsUri, FetchImageBytes),    *)
(* the bounded concurrent enrichment passes (GetAllValidFarmPlotListings,  *)
(* ConvertNFTsWithImages, the plant-scan pass of GetFarmScans), and the    *)
(* read-through cache around the public operations.                        *)
(*                                                                         *)
(* The specifications share the variables:                                 *)
(*   SpecEnrich  one enrichment call, one task per record, every           *)
(*               interleaving of the tasks and every outcome of a fetch;   *)
(*   SpecFanout  the same tasks counted by position in their code, for     *)
(*               inputs larger than the gate (tasks run the same code, so  *)
(*               the counts are the whole state of the gate);              *)
(*   Spec        the read-through operations over the cache, the graph     *)
(*               store and the chain engine;                               *)
(*   SpecQueries one call of GetFarmScans, its four query goroutines       *)
(*               interleaved;                                              *)
(*   SpecPagination  the Pagination function over its inputs;              *)
(*   SpecPages   GetFarmScans for a page and for the page after it;        *)
(*   SpecFetch   sequences of FetchImageBytes and expiries of its entries; *)
(*   SpecNonce   the wallet login: GenerateNonce, concurrent calls of      *)
(*               VerifySignature, CleanupExpiredNonces;                    *)
(*   SpecRoutes  one HTTP request through the middleware and the handler   *)
(*               of a route;                                               *)
(*   SpecResolve BuildIpfsUri of a call site applied to a reference and to *)
(*               its own result;                                           *)
(*   SpecVerify  one call of VerifySignature, the store changing under it. *)
(***************************************************************************)
EXTENDS Integers, Sequences, FiniteSets, TLC

VARIABLES
    cache,      \* the Redis store: a function from the keys present to serialized values
    kind,       \* enrichment call site: "marketplace", "portfolio" or "farm"
    records,    \* input records of the enrichment call
    result,     \* the pre-sized result slice
    task,       \* position of the goroutine of each index
    nlaunched,  \* how many goroutines the launch loop has started
    sem,        \* number of elements in the semaphore channel
    wg,         \* the WaitGroup counter
    epc,        \* position of the enrichment call itself
    fres,       \* what FetchImageBytes returned to the task of each index
    order,      \* indices in the order their tasks got their answer (history)
    writes,     \* the stores into the result slice: the task and the slot (history)
    ntasks,     \* SpecFanout: number of goroutines the call launches
    cnt,        \* SpecFanout: number of goroutines at each position
    calls,      \* Spec: number of operations called so far
    op,         \* Spec: the operation in progress
    args,       \* Spec: its arguments
    pc,         \* Spec: its position
    loc,        \* Spec: its local variables
    q,          \* Spec: state of the four concurrent queries of GetFarmScans
    ret,        \* Spec: what the operation returned
    log,         \* Spec: what the operation has done so far (history)
    nonceStore, \* auth: wallet -> the nonce stored for it and its timestamp
    now,        \* auth: the clock, in seconds
    issued,     \* auth: how many nonces GenerateNonce has drawn
    vpc,        \* auth: position of each VerifySignature call
    vin,        \* auth: arguments and locals of each VerifySignature call
    okCount,    \* auth: per nonce, how many calls returned true (history; 2 is "many")
    issuedAt,   \* auth: per nonce, the time GenerateNonce drew it, -1 before (history)
    vlast       \* auth: the VerifySignature call that returned last: its result, and
                \* what held of its nonce and of the store when it returned (history)

evars == <<kind, records, result, task, nlaunched, sem, wg, epc, fres, order, writes>>
fvars == <<ntasks, cnt>>
ovars == <<calls, op, args, pc, loc, q, ret, log>>
nvars == <<nonceStore, now, issued, vpc, vin, okCount, issuedAt, vlast>>

----------------------------------------------------------------------------
(* Strings are sequences of tokens: the literals the code tests for are    *)
(* tokens of their own, every other stretch of text is an opaque token.    *)

HTTPS == "https://"
HTTP == "http://"
IPFS == "ipfs://"
SEP == "://"
CDNHOST == ".ipfscdn.io"
IPFSPATH == "/ipfs/"
QM == "Qm"

\* Byte length of a token ("h44" stands for 44 characters of a hash).
TokLen(t) ==
    CASE t = HTTPS -> 8
      [] t = HTTP -> 7
      [] t = IPFS -> 7
      [] t = SEP -> 3
      [] t = CDNHOST -> 11
      [] t = IPFSPATH -> 6
      [] t = QM -> 2
      [] t = "h44" -> 44
      [] OTHER -> 3

RECURSIVE ByteLen(_)
ByteLen(s) == IF s = <<>> THEN 0 ELSE TokLen(Head(s)) + ByteLen(Tail(s))

HasPrefix(s, p) == Len(s) >= Len(p) /\ SubSeq(s, 1, Len(p)) = p

\* strings.Index: offset (in tokens, from 0) of the first occurrence, or -1.
IndexOf(s, p) ==
    LET hits == {i \in 0..(Len(s) - Len(p)) : SubSeq(s, i + 1, i + Len(p)) = p}
    IN IF hits = {} THEN -1 ELSE CHOOSE i \in hits : \A j \in hits : i <= j

Contains(s, p) == IndexOf(s, p) >= 0

\* A token containing the protocol separator.
HasSep(s) == \E i \in 1..Len(s) : s[i] \in {HTTPS, HTTP, IPFS, SEP}

\* strings.Replace(s, old, new, 1)
ReplaceFirst(s, old, new) ==
    LET i == IndexOf(s, old)
    IN IF i < 0 THEN s
       ELSE SubSeq(s, 1, i) \o new \o SubSeq(s, i + Len(old) + 1, Len(s))

\* The configured gateway identifier (CLIENT_ID, or the fallback of the code).
ClientID == "newid"

\* Mutant of MarketBuildIpfsUri: the configured identifier is put in front of
\* the identifier found instead of in its place.
MarketBuildIpfsUriPrepends(s) ==
    LET pat == <<CDNHOST, IPFSPATH>>
    IN IF HasPrefix(s, <<HTTPS>>) /\ Contains(s, pat) /\ IndexOf(s, pat) > 1
          THEN <<HTTPS, ClientID>> \o Tail(s)
       ELSE IF HasPrefix(s, <<HTTP>>) \/ HasPrefix(s, <<HTTPS>>) THEN s
       ELSE IF HasPrefix(s, <<IPFS>>)
          THEN <<HTTPS, ClientID, CDNHOST, IPFSPATH>> \o Tail(s)
       ELSE s

\* marketplace.services BuildIpfsUri, also used by the farm service.
MarketBuildIpfsUri(s) ==
    LET pat == <<CDNHOST, IPFSPATH>>
        start == 1
        end == IndexOf(s, pat)
    IN IF HasPrefix(s, <<HTTPS>>) /\ Contains(s, pat) /\ end > start
          THEN ReplaceFirst(s, SubSeq(s, start + 1, end) \o <<CDNHOST>>,
                            <<ClientID, CDNHOST>>)
       ELSE IF HasPrefix(s, <<HTTP>>) \/ HasPrefix(s, <<HTTPS>>) THEN s
       ELSE IF HasPrefix(s, <<IPFS>>)
          THEN <<HTTPS, ClientID, CDNHOST, IPFSPATH>> \o Tail(s)
       ELSE s

\* portfolio.services BuildIpfsUri.
PortfolioBuildIpfsUri(s) ==
    IF s = <<>> THEN <<>>
    ELSE IF HasPrefix(s, <<HTTP>>) \/ HasPrefix(s, <<HTTPS>>) THEN s
    ELSE IF HasPrefix(s, <<IPFS>>) THEN <<HTTPS, "ipfs.io", IPFSPATH>> \o Tail(s)
    ELSE IF ~HasSep(s) /\ ByteLen(s) = 46 /\ HasPrefix(s, <<QM>>)
       THEN <<HTTPS, "ipfs.io", IPFSPATH>> \o s
    ELSE s

BuildIpfsUri(k, s) ==
    IF k = "portfolio" THEN PortfolioBuildIpfsUri(s) ELSE MarketBuildIpfsUri(s)

----------------------------------------------------------------------------
(* The cache package.  A value is stored in its JSON form.                 *)

NoErr == "nil"
NilBytes == <<>>

\* What the network answers for a URL when the request succeeds.
BytesAt(url) == <<"img", url>>

\* md5 is taken as injective: the key is the pair of the prefix and the URL.
ImageKey(url) == <<"image", url>>

\* Mutant of CacheExists: the key is never found.
CacheExistsNever(c, key, up) == FALSE

\* cache.Exists: false when the client is missing or the command fails.
CacheExists(c, key, up) == up /\ key \in DOMAIN c

\* cache.Set: the entry is written unless the client is missing or the command fails.
CacheSet(c, key, val, up) ==
    IF up THEN [k \in DOMAIN c \cup {key} |-> IF k = key THEN val ELSE c[k]] ELSE c

\* Outcomes of the HTTP request of FetchImageBytes.
NetOutcomes == {"transport", "status500", "emptybody", "ok"}

FetchErrEmptyURI == "image URI is empty"

\* Mutant of FetchImageBytes: the body is stored before it is checked.
FetchImageBytesStoresFailure(url, c, exUp, getUp, net, setUp) ==
    LET key == ImageKey(url)
    IN IF url = <<>>
          THEN [bytes |-> NilBytes, err |-> FetchErrEmptyURI, cache |-> c, net |-> FALSE]
       ELSE IF CacheExists(c, key, exUp) /\ getUp /\ Len(c[key]) > 0
          THEN [bytes |-> c[key], err |-> NoErr, cache |-> c, net |-> FALSE]
       ELSE IF net = "transport"
          THEN [bytes |-> NilBytes, err |-> "failed to fetch image", cache |-> c, net |-> TRUE]
       ELSE IF net = "status500"
          THEN [bytes |-> NilBytes, err |-> "HTTP request failed", cache |-> c, net |-> TRUE]
       ELSE IF net = "emptybody"
          THEN [bytes |-> NilBytes, err |-> "image data is empty",
                cache |-> CacheSet(c, key, NilBytes, setUp), net |-> TRUE]
       ELSE [bytes |-> BytesAt(url), err |-> NoErr,
             cache |-> CacheSet(c, key, BytesAt(url), setUp), net |-> TRUE]

\* FetchImageBytes(imageURI): the bytes and error returned, the cache after the
\* call, and whether an HTTP request was made.  exUp, getUp, setUp: whether the
\* Exists, Get and Set commands of this call succeed; net: the HTTP outcome.
FetchImageBytes(url, c, exUp, getUp, net, setUp) ==
    LET key == ImageKey(url)
    IN IF url = <<>>
          THEN [bytes |-> NilBytes, err |-> FetchErrEmptyURI, cache |-> c, net |-> FALSE]
       ELSE IF CacheExists(c, key, exUp) /\ getUp /\ Len(c[key]) > 0
          THEN [bytes |-> c[key], err |-> NoErr, cache |-> c, net |-> FALSE]
       ELSE IF net = "transport"
          THEN [bytes |-> NilBytes, err |-> "failed to fetch image", cache |-> c, net |-> TRUE]
       ELSE IF net = "status500"
          THEN [bytes |-> NilBytes, err |-> "HTTP request failed", cache |-> c, net |-> TRUE]
       ELSE IF net = "emptybody"
          THEN [bytes |-> NilBytes, err |-> "image data is empty", cache |-> c, net |-> TRUE]
       ELSE [bytes |-> BytesAt(url), err |-> NoErr,
             cache |-> CacheSet(c, key, BytesAt(url), setUp), net |-> TRUE]

----------------------------------------------------------------------------
(* The bounded concurrent enrichment.                                      *)

\* Bound on the number of records of one enrichment call in SpecEnrich.
MaxRecords == 2

\* Capacity of the semaphore channel of the marketplace and portfolio passes.
maxConcurrentFetches == 20

Kinds == {"marketplace", "portfolio", "farm"}

\* Image references found in the records.
RefIpfs == <<IPFS, "h1">>
RefGateway == <<HTTPS, "old", CDNHOST, IPFSPATH, "h2">>
RefBare == <<QM, "h44">>

\* A record: its non-image fields (id), the image attribute (the imageUri of a
\* plant scan) and, for an NFT, the metadata URI.
RecordChoices(k) ==
    IF k = "portfolio"
       THEN {[attr |-> <<>>, uri |-> <<>>], [attr |-> <<>>, uri |-> RefBare],
             [attr |-> RefIpfs, uri |-> RefBare]}
       ELSE {[attr |-> a, uri |-> <<>>] : a \in {<<>>, RefGateway}}

FieldsOf(i) == 100 + i

Inputs(k) ==
    UNION {{[i \in 1..n |-> [id |-> FieldsOf(i), attr |-> c[i].attr, uri |-> c[i].uri]] :
               c \in [1..n -> RecordChoices(k)]} : n \in 0..MaxRecords}

\* Mutant of HasTask: no pre-filter, every record gets a task.
HasTaskAlways(k, rec) == TRUE

\* The pre-filter: does the record get a task?
\* marketplace: an attribute with a non-empty Image; portfolio: an image
\* attribute or a non-empty metadata URI; farm: every record of the page.
HasTask(k, rec) ==
    CASE k = "marketplace" -> rec.attr # <<>>
      [] k = "portfolio" -> rec.attr # <<>> \/ rec.uri # <<>>
      [] OTHER -> TRUE

\* The reference the task of a record fetches.
ImageRef(k, rec) ==
    IF k = "portfolio" /\ rec.attr = <<>> THEN rec.uri ELSE rec.attr

\* The indices with a task, in launch order.
RECURSIVE WithImages(_, _, _)
WithImages(k, recs, i) ==
    IF i > Len(recs) THEN <<>>
    ELSE (IF HasTask(k, recs[i]) THEN <<i>> ELSE <<>>) \o WithImages(k, recs, i + 1)

ZeroSlot == [fields |-> 0, image |-> NilBytes]

\* The result slice right after the first pass: the marketplace and portfolio
\* passes copy the non-image fields of every record; the farm pass allocates
\* zero values and leaves each slot to its task.
PreparedResult(k, recs) ==
    [i \in 1..Len(recs) |->
        IF k = "farm" THEN ZeroSlot ELSE [fields |-> recs[i].id, image |-> NilBytes]]

\* Does the call take the semaphore (the farm pass has none)?
Gated(k) == k # "farm"

\* nftsWithImages of the portfolio pass, as its first loop builds it: the
\* index is appended for an image attribute and, for a metadata URI, when it
\* is not in the list yet.
RECURSIVE NftsWithImagesFrom(_, _, _)
RECURSIVE NftsWithImagesNoCheck(_, _, _)

\* Mutant of NftsWithImagesFrom: the list is not searched before the index
\* is appended for the metadata URI.
NftsWithImagesNoCheck(recs, i, acc) ==
    IF i > Len(recs) THEN acc
    ELSE LET a1 == IF recs[i].attr # <<>> THEN Append(acc, i) ELSE acc
             a2 == IF recs[i].uri # <<>> THEN Append(a1, i) ELSE a1
         IN NftsWithImagesNoCheck(recs, i + 1, a2)

NftsWithImagesFrom(recs, i, acc) ==
    IF i > Len(recs) THEN acc
    ELSE LET a1 == IF recs[i].attr # <<>> THEN Append(acc, i) ELSE acc
             found == \E j \in 1..Len(a1) : a1[j] = i
             a2 == IF recs[i].uri # <<>> /\ ~found THEN Append(a1, i) ELSE a1
         IN NftsWithImagesFrom(recs, i + 1, a2)

\* The indices the launch loop of a call ranges over.
TasksOf(k, recs) ==
    IF k = "portfolio" THEN NftsWithImagesFrom(recs, 1, <<>>) ELSE WithImages(k, recs, 1)

Launched == {i \in 1..Len(records) : task[i] # "none"}
Tasks == TasksOf(kind, records)
Fetching == {i \in 1..Len(records) : task[i] = "fetching"}

\* The enrichment call starts: first pass over the records and, when no
\* record has a task, the immediate return.
EnrichCall ==
    /\ epc = "idle"
    /\ \E k \in Kinds : \E recs \in Inputs(k) :
         /\ kind' = k
         /\ records' = recs
         /\ result' = PreparedResult(k, recs)
         /\ task' = [i \in 1..Len(recs) |-> "none"]
         /\ fres' = [i \in 1..Len(recs) |-> "none"]
         /\ nlaunched' = 0
         /\ sem' = 0
         \* imageWg.Add(len(plantScanRecords)) precedes the loop of the farm pass
         /\ wg' = IF k = "farm" THEN Len(recs) ELSE 0
         /\ epc' = IF TasksOf(k, recs) = <<>> THEN "returned" ELSE "launching"
    /\ order' = <<>>
    /\ writes' = <<>>
    /\ UNCHANGED nvars
    /\ UNCHANGED ovars
    /\ UNCHANGED <<cache, fvars>>

\* One iteration of the launch loop: wg.Add(1) and the go statement.
Launch ==
    /\ epc = "launching"
    /\ nlaunched < Len(Tasks)
    /\ nlaunched' = nlaunched + 1
    /\ task' = [task EXCEPT ![Tasks[nlaunched + 1]] = "waiting"]
    /\ wg' = IF kind = "farm" THEN wg ELSE wg + 1
    /\ UNCHANGED nvars
    /\ UNCHANGED ovars
    /\ UNCHANGED <<cache, kind, records, result, sem, epc, fres, order, writes, fvars>>

\* Mutant of GateOpen: the channel made without a capacity.
GateOpenUnbuffered(n) == n < 0

\* Can a send on the semaphore channel proceed?
GateOpen(n) == n < maxConcurrentFetches

\* semaphore <- struct{}{} : blocks while the channel is full.  The portfolio
\* task then returns at once when it finds no reference.
Acquire(i) ==
    /\ Gated(kind)
    /\ task[i] = "waiting"
    /\ GateOpen(sem)
    /\ sem' = sem + 1
    /\ task' = [task EXCEPT ![i] =
                   IF ImageRef(kind, records[i]) = <<>> THEN "exiting" ELSE "fetching"]
    /\ UNCHANGED nvars
    /\ UNCHANGED ovars
    /\ UNCHANGED <<cache, kind, records, result, nlaunched, wg, epc, fres, order, writes, fvars>>

\* Mutant of SlotIndex: results stored in completion order.
SlotIndexByCompletion(i) == Len(order) + 1

\* The index a task writes to.
SlotIndex(i) == i

\* The slot a farm task stores once it has the bytes (or none).
FarmSlot(rec, bytes) == [fields |-> rec.id, image |-> bytes]

\* The farm task starts: no gate; a record without imageUri is stored at once.
FarmStart(i) ==
    /\ ~Gated(kind)
    /\ task[i] = "waiting"
    /\ IF ImageRef(kind, records[i]) = <<>>
          THEN /\ result' = [result EXCEPT ![SlotIndex(i)] = FarmSlot(records[i], NilBytes)]
               /\ task' = [task EXCEPT ![i] = "released"]
               /\ order' = Append(order, i)
               /\ writes' = Append(writes, [task |-> i, slot |-> SlotIndex(i)])
          ELSE /\ result' = result
               /\ task' = [task EXCEPT ![i] = "fetching"]
               /\ order' = order
               /\ writes' = writes
    /\ UNCHANGED nvars
    /\ UNCHANGED ovars
    /\ UNCHANGED <<cache, kind, records, nlaunched, sem, wg, epc, fres, fvars>>

\* Mutant of SlotAfterFetch: a failed fetch resets the slot.
SlotAfterFetchDropsFields(k, slot, rec, r) ==
    IF r.err = NoErr THEN [fields |-> rec.id, image |-> r.bytes] ELSE ZeroSlot

\* The slot after FetchImageBytes returned r to the task of index i.
SlotAfterFetch(k, slot, rec, r) ==
    IF k = "farm"
       THEN FarmSlot(rec, IF r.err = NoErr THEN r.bytes ELSE NilBytes)
    ELSE IF r.err = NoErr THEN [slot EXCEPT !.image = r.bytes]
    ELSE slot

ZeroCnt == [waiting |-> 0, fetching |-> 0, exiting |-> 0, released |-> 0, done |-> 0]

\* Where a task goes once its fetch returned: to the deferred release when it
\* holds a slot of the semaphore, else straight to the deferred Done.
ExitPosition(k, ok) == IF Gated(k) THEN "exiting" ELSE "released"

\* BuildIpfsUri and FetchImageBytes return to the task, which stores the bytes.
FetchReturn(i) ==
    /\ task[i] = "fetching"
    /\ LET url == BuildIpfsUri(kind, ImageRef(kind, records[i]))
       IN \E exUp \in BOOLEAN, getUp \in BOOLEAN, setUp \in BOOLEAN, net \in NetOutcomes :
            LET r == FetchImageBytes(url, cache, exUp, getUp, net, setUp)
            IN /\ cache' = r.cache
               /\ fres' = [fres EXCEPT ![i] = IF r.err = NoErr THEN "ok" ELSE "err"]
               /\ result' = [result EXCEPT ![SlotIndex(i)] =
                                SlotAfterFetch(kind, result[SlotIndex(i)], records[i], r)]
               /\ task' = [task EXCEPT ![i] = ExitPosition(kind, r.err = NoErr)]
               /\ writes' = IF kind = "farm" \/ r.err = NoErr
                                THEN Append(writes, [task |-> i, slot |-> SlotIndex(i)])
                                ELSE writes
    /\ order' = Append(order, i)
    /\ UNCHANGED nvars
    /\ UNCHANGED ovars
    /\ UNCHANGED <<kind, records, nlaunched, sem, wg, epc, fvars>>

\* The deferred <-semaphore.
Release(i) ==
    /\ task[i] = "exiting"
    /\ sem' = sem - 1
    /\ task' = [task EXCEPT ![i] = "released"]
    /\ UNCHANGED nvars
    /\ UNCHANGED ovars
    /\ UNCHANGED <<cache, kind, records, result, nlaunched, wg, epc, fres, order, writes, fvars>>

\* The deferred wg.Done(), which runs after the release.
Done(i) ==
    /\ task[i] = "released"
    /\ wg' = wg - 1
    /\ task' = [task EXCEPT ![i] = "done"]
    /\ UNCHANGED nvars
    /\ UNCHANGED ovars
    /\ UNCHANGED <<cache, kind, records, result, nlaunched, sem, epc, fres, order, writes, fvars>>

\* Mutant of WaitOver: the join returns while one task is still running.
WaitOverEarly(n) == n <= 1

\* May wg.Wait() return?
WaitOver(n) == n = 0

\* wg.Wait() returns and the call returns the result slice.
EnrichReturn ==
    /\ epc = "launching"
    /\ nlaunched = Len(Tasks)
    /\ WaitOver(wg)
    /\ epc' = "returned"
    /\ UNCHANGED nvars
    /\ UNCHANGED ovars
    /\ UNCHANGED <<cache, kind, records, result, task, nlaunched, sem, wg, fres, order, writes, fvars>>

\* Bounds of the wallet login: concurrent calls of VerifySignature, nonces
\* drawn by GenerateNonce.
NVerifiers == 2
MaxNonces == 2
Verifiers == 1..NVerifiers

InitEnrich ==
    /\ cache = <<>>
    /\ kind = "marketplace"
    /\ records = <<>>
    /\ result = <<>>
    /\ task = <<>>
    /\ fres = <<>>
    /\ nlaunched = 0
    /\ sem = 0
    /\ wg = 0
    /\ epc = "idle"
    /\ order = <<>>
    /\ writes = <<>>
    /\ ntasks = 0
    /\ cnt = ZeroCnt
    /\ calls = 0
    /\ op = "none"
    /\ args = <<>>
    /\ pc = "idle"
    /\ loc = <<>>
    /\ q = <<>>
    /\ ret = <<>>
    /\ log = <<>>
    /\ nonceStore = <<>>
    /\ now = 0
    /\ issued = 0
    /\ vpc = [p \in Verifiers |-> "idle"]
    /\ vin = [p \in Verifiers |-> <<>>]
    /\ okCount = [n \in 1..MaxNonces |-> 0]
    /\ issuedAt = [n \in 1..MaxNonces |-> -1]
    /\ vlast = [ok |-> FALSE, err |-> "none", old |-> FALSE, matched |-> FALSE,
                stale |-> FALSE, gone |-> FALSE, changed |-> FALSE]

NextEnrich ==
    \/ EnrichCall
    \/ Launch
    \/ \E i \in 1..Len(records) : Acquire(i)
    \/ \E i \in 1..Len(records) : FarmStart(i)
    \/ \E i \in 1..Len(records) : FetchReturn(i)
    \/ \E i \in 1..Len(records) : Release(i)
    \/ \E i \in 1..Len(records) : Done(i)
    \/ EnrichReturn

vars == <<cache, evars, fvars, ovars, nvars>>

SpecEnrich == InitEnrich /\ [][NextEnrich]_vars

----------------------------------------------------------------------------
(* The same enrichment call with its goroutines counted by position.  Every *)
(* record carries a reference, so every record gets a task and a fetch.     *)

\* How far beyond the capacity of the semaphore the inputs of SpecFanout go.
Excess == 1

FanSizes == {0, 1, maxConcurrentFetches + Excess}

Move(c, from, to) == [c EXCEPT ![from] = @ - 1, ![to] = @ + 1]

FanCall ==
    /\ epc = "idle"
    /\ \E k \in Kinds, n \in FanSizes :
         /\ kind' = k
         /\ ntasks' = n
         /\ wg' = IF k = "farm" THEN n ELSE 0
         /\ epc' = IF n = 0 THEN "returned" ELSE "launching"
    /\ UNCHANGED nvars
    /\ UNCHANGED ovars
    /\ UNCHANGED <<cache, records, result, task, nlaunched, sem, fres, order, writes, cnt>>

FanLaunch ==
    /\ epc = "launching"
    /\ nlaunched < ntasks
    /\ nlaunched' = nlaunched + 1
    /\ cnt' = [cnt EXCEPT !.waiting = @ + 1]
    /\ wg' = IF kind = "farm" THEN wg ELSE wg + 1
    /\ UNCHANGED nvars
    /\ UNCHANGED ovars
    /\ UNCHANGED <<cache, kind, records, result, task, sem, epc, fres, order, writes, ntasks>>

FanAcquire ==
    /\ Gated(kind)
    /\ cnt.waiting > 0
    /\ GateOpen(sem)
    /\ sem' = sem + 1
    /\ cnt' = Move(cnt, "waiting", "fetching")
    /\ UNCHANGED nvars
    /\ UNCHANGED ovars
    /\ UNCHANGED <<cache, kind, records, result, task, nlaunched, wg, epc, fres, order, writes, ntasks>>

FanFarmStart ==
    /\ ~Gated(kind)
    /\ cnt.waiting > 0
    /\ cnt' = Move(cnt, "waiting", "fetching")
    /\ UNCHANGED nvars
    /\ UNCHANGED ovars
    /\ UNCHANGED <<cache, kind, records, result, task, nlaunched, sem, wg, epc, fres, order, writes, ntasks>>

FanFetchReturn ==
    /\ cnt.fetching > 0
    /\ \E ok \in BOOLEAN : cnt' = Move(cnt, "fetching", ExitPosition(kind, ok))
    /\ UNCHANGED nvars
    /\ UNCHANGED ovars
    /\ UNCHANGED <<cache, kind, records, result, task, nlaunched, sem, wg, epc, fres, order, writes, ntasks>>

FanRelease ==
    /\ cnt.exiting > 0
    /\ sem' = sem - 1
    /\ cnt' = Move(cnt, "exiting", "released")
    /\ UNCHANGED nvars
    /\ UNCHANGED ovars
    /\ UNCHANGED <<cache, kind, records, result, task, nlaunched, wg, epc, fres, order, writes, ntasks>>

FanDone ==
    /\ cnt.released > 0
    /\ wg' = wg - 1
    /\ cnt' = Move(cnt, "released", "done")
    /\ UNCHANGED nvars
    /\ UNCHANGED ovars
    /\ UNCHANGED <<cache, kind, records, result, task, nlaunched, sem, epc, fres, order, writes, ntasks>>

FanReturn ==
    /\ epc = "launching"
    /\ nlaunched = ntasks
    /\ WaitOver(wg)
    /\ epc' = "returned"
    /\ UNCHANGED nvars
    /\ UNCHANGED ovars
    /\ UNCHANGED <<cache, kind, records, result, task, nlaunched, sem, wg, fres, order, writes, ntasks, cnt>>

NextFan ==
    \/ FanCall
    \/ FanLaunch
    \/ FanAcquire
    \/ FanFarmStart
    \/ FanFetchReturn
    \/ FanRelease
    \/ FanDone
    \/ FanReturn

SpecFanout == InitEnrich /\ [][NextFan]_vars

\* The scheduler runs every runnable goroutine and every fetch returns.
FairFanout ==
    /\ SpecFanout
    /\ WF_vars(FanLaunch)
    /\ WF_vars(FanAcquire)
    /\ WF_vars(FanFarmStart)
    /\ WF_vars(FanFetchReturn)
    /\ WF_vars(FanRelease)
    /\ WF_vars(FanDone)
    /\ WF_vars(FanReturn)

----------------------------------------------------------------------------
(* The read-through operations: GetFarmScans, GetPortFolioSummary,          *)
(* GetEntirePortfolio and GetAllValidFarmPlotListings, called one after     *)
(* the other over the same cache.  The image pass of an operation is one    *)
(* step here (tasks taken in index order; SpecEnrich has its interleavings),*)
(* and so are the four queries of GetFarmScans (SpecQueries has theirs).    *)

\* Bounds: operations called in one behaviour, records in the graph store,
\* largest page and limit a caller passes.
MaxCalls == 2
NPlants == 3
NSoil == 1
MaxPage == 2
MaxLimit == 1

\* limit = 10 and page = 1, the defaults of GetFarmScans.
DefaultLimit == 10
DefaultPage == 1

Farm == "papaya_farm"

Min(a, b) == IF a < b THEN a ELSE b
Max(a, b) == IF a > b THEN a ELSE b

\* The plant scans and soil readings of the farm, in the order of the queries
\* (newest first).  The newest plant scan carries an imageUri.
PlantRecord(i) == [id |-> 200 + i, attr |-> IF i = 1 THEN RefIpfs ELSE <<>>, uri |-> <<>>]
SoilRecord(i) == 300 + i

\* Mutant of PageRanks: one row more is skipped.
PageRanksSkipsOne(n, offset, limit) ==
    [j \in 1..Max(0, Min(limit, n - offset - 1)) |-> offset + 1 + j]

\* SKIP $offset LIMIT $limit over n rows: the ranks returned.
PageRanks(n, offset, limit) ==
    [j \in 1..Max(0, Min(limit, n - offset)) |-> offset + j]

\* GetFarmScans: the offset, then the defaults for limit and page.
FarmScansParams(page, limit) ==
    LET offset == (page - 1) * limit
        l == IF limit <= 0 THEN DefaultLimit ELSE limit
        p == IF page <= 0 THEN DefaultPage ELSE page
    IN [offset |-> offset, page |-> p, limit |-> l]

FarmScansKey(farm, page, limit) == <<"farm_scans", farm, page, limit>>

\* Mutant of Pagination: the division rounds down.
PaginationFloor(page, limit, plantTotal, soilTotal) ==
    LET total == IF soilTotal > plantTotal THEN soilTotal ELSE plantTotal
        totalPages == total \div limit
    IN [page |-> page, limit |-> limit, total |-> total, totalPages |-> totalPages,
        hasNext |-> page < totalPages, hasPrevious |-> page > 1]

\* The pagination metadata of GetFarmScans.
Pagination(page, limit, plantTotal, soilTotal) ==
    LET total == IF soilTotal > plantTotal THEN soilTotal ELSE plantTotal
        totalPages == (total + limit - 1) \div limit
    IN [page |-> page, limit |-> limit, total |-> total, totalPages |-> totalPages,
        hasNext |-> page < totalPages, hasPrevious |-> page > 1]

\* The zero value a Go function returns next to an error.
ZeroResult == [zero |-> TRUE]

\* json.Marshal in cache.Set and json.Unmarshal in cache.Get.
Marshal(v) == [json |-> v]

\* Mutant of Unmarshal: the destination is left at its zero value.
UnmarshalDropsValue(x) == ZeroResult

Unmarshal(x) == x.json


NewLog ==
    [graph |-> 0, idq |-> 0, chain |-> 0, fetches |-> {}, sets |-> {},
     hit |-> FALSE, cacheFailed |-> FALSE, ran |-> FALSE,
     live |-> [val |-> ZeroResult, err |-> NoErr]]

QueryNames == {"plant", "soil", "plantCount", "soilCount"}

\* The image pass over recs, tasks taken in index order from index i on.
\* outs[j]: does the HTTP request for record j succeed; up: do the cache
\* commands of the pass succeed.
RECURSIVE EnrichFrom(_, _, _, _, _, _)
EnrichFrom(k, recs, i, c, outs, up) ==
    IF i > Len(recs) THEN [result |-> <<>>, cache |-> c, fetches |-> {}]
    ELSE LET rec == recs[i]
             prepared == PreparedResult(k, recs)[i]
             fetch == HasTask(k, rec) /\ ImageRef(k, rec) # <<>>
             url == BuildIpfsUri(k, ImageRef(k, rec))
             r == FetchImageBytes(url, c, up, up, IF outs[i] THEN "ok" ELSE "status500", up)
             slot == IF fetch THEN SlotAfterFetch(k, prepared, rec, r)
                     ELSE IF k = "farm" THEN FarmSlot(rec, NilBytes)
                     ELSE prepared
             rest == EnrichFrom(k, recs, i + 1, IF fetch THEN r.cache ELSE c, outs, up)
         IN [result |-> <<slot>> \o rest.result,
             cache |-> rest.cache,
             fetches |-> rest.fetches \cup
                 (IF fetch THEN {[url |-> url, up |-> up, net |-> r.net,
                                  ok |-> outs[i], bytes |-> r.bytes, err |-> r.err]}
                  ELSE {})]

\* The indices of recs whose task fetches.
FetchIndices(k, recs) ==
    {i \in 1..Len(recs) : HasTask(k, recs[i]) /\ ImageRef(k, recs[i]) # <<>>}

Outcomes(k, recs) ==
    {[i \in 1..Len(recs) |-> i \in s] : s \in SUBSET FetchIndices(k, recs)}

\* GetFarmScans is called.
CallFarmScans ==
    /\ pc = "idle"
    /\ calls < MaxCalls
    /\ \E page \in 0..MaxPage, limit \in 0..MaxLimit :
         LET p == FarmScansParams(page, limit)
         IN /\ args' = [farm |-> Farm, page |-> page, limit |-> limit]
            /\ loc' = [offset |-> p.offset, page |-> p.page, limit |-> p.limit,
                       key |-> FarmScansKey(Farm, p.page, p.limit)]
    /\ op' = "farmscans"
    /\ pc' = "exists"
    /\ calls' = calls + 1
    /\ log' = NewLog
    /\ ret' = <<>>
    /\ q' = <<>>
    /\ UNCHANGED nvars
    /\ UNCHANGED <<cache, evars, fvars>>

\* The defaults of the route /farm/scans/:farmName and the largest limit it
\* accepts.
RoutePage == 1
RouteLimit == 10
MaxRouteLimit == 100

\* A limit far above the largest accepted one.
BigLimit == 500

\* strconv.Atoi of a query parameter: set is FALSE when the parameter is absent
\* or is not a number.
PageQueries == {[set |-> FALSE, n |-> 0]} \cup {[set |-> TRUE, n |-> k] : k \in 0..MaxPage}
LimitQueries ==
    {[set |-> FALSE, n |-> 0]} \cup
    {[set |-> TRUE, n |-> k] :
        k \in (0..MaxLimit) \cup {MaxRouteLimit, MaxRouteLimit + 1, BigLimit}}

\* The page and the limit the route passes to GetFarmScans.
RouteScansArgs(pq, lq) ==
    [page |-> IF pq.set /\ pq.n > 0 THEN pq.n ELSE RoutePage,
     limit |-> IF lq.set /\ lq.n > 0 /\ lq.n <= MaxRouteLimit THEN lq.n ELSE RouteLimit]

\* GET /api/farm/scans/:farmName: the query parameters are read and
\* GetFarmScans is called.
ScansRoute ==
    /\ pc = "idle"
    /\ calls < MaxCalls
    /\ \E pq \in PageQueries, lq \in LimitQueries :
         LET a == RouteScansArgs(pq, lq)
             p == FarmScansParams(a.page, a.limit)
         IN /\ args' = [farm |-> Farm, page |-> a.page, limit |-> a.limit,
                        query |-> [page |-> pq, limit |-> lq]]
            /\ loc' = [offset |-> p.offset, page |-> p.page, limit |-> p.limit,
                       key |-> FarmScansKey(Farm, p.page, p.limit)]
    /\ op' = "farmscans"
    /\ pc' = "exists"
    /\ calls' = calls + 1
    /\ log' = NewLog
    /\ ret' = <<>>
    /\ q' = <<>>
    /\ UNCHANGED nvars
    /\ UNCHANGED <<cache, evars, fvars>>

\* Where the live pipeline of an operation starts.
LivePc(o) == IF o = "farmscans" THEN "querying" ELSE "engine"

\* wg.Add(4) and the four go statements of GetFarmScans.
StartLive(o, l) ==
    [queries |-> IF o = "farmscans" THEN [n \in QueryNames |-> "pending"] ELSE <<>>,
     log |-> IF o = "farmscans" THEN [l EXCEPT !.graph = 4, !.ran = TRUE]
             ELSE [l EXCEPT !.ran = TRUE]]

\* if cache.Exists(cacheKey)
CacheExistsStep ==
    /\ pc = "exists"
    /\ \E up \in BOOLEAN :
         LET l == [log EXCEPT !.cacheFailed = @ \/ ~up]
         IN IF CacheExists(cache, loc.key, up)
               THEN /\ pc' = "get"
                    /\ log' = l
                    /\ q' = q
               ELSE /\ pc' = LivePc(op)
                    /\ log' = StartLive(op, l).log
                    /\ q' = StartLive(op, l).queries
    /\ UNCHANGED nvars
    /\ UNCHANGED <<cache, evars, fvars, calls, op, args, loc, ret>>

\* Mutant of LookupHit: the error of cache.Get is ignored.
LookupHitIgnoresErr(ok) == TRUE

\* err == nil after cache.Get: the cached value is returned.
LookupHit(ok) == ok

\* err := cache.Get(cacheKey, &cachedResult)
CacheGetStep ==
    /\ pc = "get"
    /\ \E up \in BOOLEAN :
         LET ok == up /\ loc.key \in DOMAIN cache
             l == [log EXCEPT !.cacheFailed = @ \/ ~ok]
         IN IF LookupHit(ok)
               THEN /\ pc' = "returned"
                    /\ ret' = [val |-> IF ok THEN Unmarshal(cache[loc.key]) ELSE ZeroResult,
                               err |-> NoErr]
                    /\ log' = [l EXCEPT !.hit = TRUE]
                    /\ q' = q
               ELSE /\ pc' = LivePc(op)
                    /\ ret' = ret
                    /\ log' = StartLive(op, l).log
                    /\ q' = StartLive(op, l).queries
    /\ UNCHANGED nvars
    /\ UNCHANGED <<cache, evars, fvars, calls, op, args, loc>>

\* An entry reaches its TTL between cache.Exists and cache.Get.
Expire ==
    /\ pc = "get"
    /\ \E key \in DOMAIN cache : cache' = [k \in DOMAIN cache \ {key} |-> cache[k]]
    /\ UNCHANGED nvars
    /\ UNCHANGED <<evars, fvars, ovars>>

\* What memgraph.ExecuteRead answers to query n: a negative SKIP is refused
\* by the store.
QueryOutcome(n, offset, ok) ==
    IF ok /\ ~(n \in {"plant", "soil"} /\ offset < 0) THEN "ok" ELSE "fail"

\* memgraph.ExecuteRead returns to one of the four goroutines.
QueryReturn(n) ==
    /\ pc = "querying"
    /\ q[n] = "pending"
    /\ \E ok \in BOOLEAN : q' = [q EXCEPT ![n] = QueryOutcome(n, loc.offset, ok)]
    /\ UNCHANGED nvars
    /\ UNCHANGED <<cache, evars, fvars, calls, op, args, pc, loc, ret, log>>

\* Mutant of QueryError: the errors of the count queries are not checked.
QueryErrorDataOnly(qs) ==
    IF qs["plant"] = "fail" THEN "failed to fetch plant scans"
    ELSE IF qs["soil"] = "fail" THEN "failed to fetch soil readings"
    ELSE NoErr

\* The error checks after wg.Wait().
QueryError(qs) ==
    IF qs["plant"] = "fail" THEN "failed to fetch plant scans"
    ELSE IF qs["soil"] = "fail" THEN "failed to fetch soil readings"
    ELSE IF qs["plantCount"] = "fail" THEN "failed to get plant scans count"
    ELSE IF qs["soilCount"] = "fail" THEN "failed to get soil readings count"
    ELSE NoErr

\* After wg.Wait(): an error of any query ends the call.
Joined(qs) ==
    LET err == QueryError(qs)
    IN IF err # NoErr
          THEN /\ pc' = "returned"
               /\ ret' = [val |-> ZeroResult, err |-> err]
               /\ log' = [log EXCEPT !.live = [val |-> ZeroResult, err |-> err]]
          ELSE /\ pc' = "enrich"
               /\ ret' = ret
               /\ log' = log

\* wg.Wait() returns once the four goroutines are done.
QueriesJoin ==
    /\ pc = "querying"
    /\ \A n \in QueryNames : q[n] # "pending"
    /\ Joined(q)
    /\ UNCHANGED nvars
    /\ UNCHANGED <<cache, evars, fvars, calls, op, args, loc, q>>

\* The four queries and the join in one step.
FarmQueries ==
    /\ pc = "querying"
    /\ \E oks \in [QueryNames -> BOOLEAN] :
         LET qs == [n \in QueryNames |-> QueryOutcome(n, loc.offset, oks[n])]
         IN q' = qs /\ Joined(qs)
    /\ UNCHANGED nvars
    /\ UNCHANGED <<cache, evars, fvars, calls, op, args, loc>>

\* The rest of GetFarmScans: the image pass over the plant scans of the page,
\* the soil readings, the pagination, cache.Set and the return.
FarmScansFinish ==
    /\ pc = "enrich"
    /\ op = "farmscans"
    /\ LET ranks == PageRanks(NPlants, loc.offset, loc.limit)
           recs == [j \in 1..Len(ranks) |-> PlantRecord(ranks[j])]
           sranks == PageRanks(NSoil, loc.offset, loc.limit)
       IN \E outs \in Outcomes("farm", recs), up \in BOOLEAN, setUp \in BOOLEAN :
            LET e == EnrichFrom("farm", recs, 1, cache, outs, up)
                res == [plantScans |-> e.result,
                        soilReadings |-> [j \in 1..Len(sranks) |-> SoilRecord(sranks[j])],
                        pagination |-> Pagination(loc.page, loc.limit, NPlants, NSoil)]
                out == [val |-> res, err |-> NoErr]
            IN /\ cache' = CacheSet(e.cache, loc.key, Marshal(res), setUp)
               /\ ret' = out
               /\ log' = [log EXCEPT !.fetches = e.fetches,
                                     !.sets = @ \cup {loc.key},
                                     !.cacheFailed = @ \/ ~setUp \/ (e.fetches # {} /\ ~up),
                                     !.live = out]
    /\ pc' = "returned"
    /\ UNCHANGED nvars
    /\ UNCHANGED <<evars, fvars, calls, op, args, loc, q>>

\* The sentinel token, the subject it stands for, and the tokens of callers:
\* a valid JWT of user u1 and a token that does not parse.
DevBypassToken == "dev_bypass_authorized"
TreasurySubject == "0x984785A89BF95cb3d5Df4E45F670081944d8D547"
Tokens == {DevBypassToken, "jwt_u1", "jwt_bad"}

\* VerifyAccessToken: the subject, the error and the user lookups made in the
\* graph store.  found: does the lookup return the user.
VerifyAccessToken(token, found) ==
    IF token = DevBypassToken
       THEN [username |-> TreasurySubject, err |-> NoErr, lookups |-> 0]
    ELSE IF token = "jwt_bad"
       THEN [username |-> "", err |-> "invalid token", lookups |-> 0]
    ELSE IF ~found
       THEN [username |-> "", err |-> "user does not exist", lookups |-> 1]
    ELSE [username |-> "u1", err |-> NoErr, lookups |-> 1]

PortfolioOps == {"summary", "entire"}

\* Mutant of PortfolioKey: one key per category, for every subject.
PortfolioKeyShared(o, username) ==
    <<IF o = "summary" THEN "portfolio" ELSE "entire_portfolio", "all">>

PortfolioKey(o, username) ==
    <<IF o = "summary" THEN "portfolio" ELSE "entire_portfolio", username>>

\* GetPortFolioSummary or GetEntirePortfolio is called: the token is verified
\* and the cache key derived from the subject.
CallPortfolio(o) ==
    /\ pc = "idle"
    /\ calls < MaxCalls
    /\ \E token \in Tokens, found \in BOOLEAN :
         LET v == VerifyAccessToken(token, found)
         IN /\ args' = [token |-> token]
            /\ log' = [NewLog EXCEPT !.idq = v.lookups]
            /\ IF v.err # NoErr
                  THEN /\ pc' = "returned"
                       /\ loc' = <<>>
                       /\ ret' = [val |-> ZeroResult, err |-> v.err]
                  ELSE /\ pc' = "exists"
                       /\ loc' = [key |-> PortfolioKey(o, v.username)]
                       /\ ret' = <<>>
    /\ op' = o
    /\ calls' = calls + 1
    /\ q' = <<>>
    /\ UNCHANGED nvars
    /\ UNCHANGED <<cache, evars, fvars>>

\* What the chain engine answers to get-owned: a failure or the NFTs owned.
NFT(i, a, u) == [id |-> FieldsOf(i), attr |-> a, uri |-> u]
OwnedResults ==
    {[ok |-> FALSE, result |-> <<>>], [ok |-> TRUE, result |-> <<>>],
     [ok |-> TRUE, result |-> <<NFT(1, <<>>, <<>>)>>],
     [ok |-> TRUE, result |-> <<NFT(1, <<>>, <<>>), NFT(2, RefIpfs, RefBare)>>]}

\* The live pipeline of the two portfolio operations: GetOwnedNFTs (which
\* verifies the token again), the summary or ConvertNFTsWithImages, cache.Set
\* and the return.
PortfolioLive ==
    /\ pc = "engine"
    /\ op \in PortfolioOps
    /\ \E found \in BOOLEAN, eng \in OwnedResults, up \in BOOLEAN, setUp \in BOOLEAN :
         LET v == VerifyAccessToken(args.token, found)
             l == [log EXCEPT !.idq = @ + v.lookups]
             recs == IF op = "entire" THEN eng.result ELSE <<>>
         IN IF v.err # NoErr
               THEN LET out == [val |-> ZeroResult, err |-> "invalid or expired token"]
                    IN /\ ret' = out
                       /\ log' = [l EXCEPT !.live = out]
                       /\ cache' = cache
            ELSE IF ~eng.ok
               THEN LET out == [val |-> ZeroResult, err |-> "failed to make request"]
                    IN /\ ret' = out
                       /\ log' = [l EXCEPT !.chain = 1, !.live = out]
                       /\ cache' = cache
            ELSE \E outs \in Outcomes("portfolio", recs) :
                   LET e == EnrichFrom("portfolio", recs, 1, cache, outs, up)
                       \* owner: the wallet the engine was asked about
                       res == IF op = "summary"
                                 THEN [farmPlotNFTCount |-> Len(eng.result), owner |-> v.username]
                                 ELSE [farmPlotNFTs |-> e.result, owner |-> v.username]
                       out == [val |-> res, err |-> NoErr]
                   IN /\ ret' = out
                      /\ cache' = CacheSet(e.cache, loc.key, Marshal(res), setUp)
                      /\ log' = [l EXCEPT !.chain = 1,
                                          !.fetches = e.fetches,
                                          !.sets = @ \cup {loc.key},
                                          !.cacheFailed = @ \/ ~setUp \/ (e.fetches # {} /\ ~up),
                                          !.live = out]
    /\ pc' = "returned"
    /\ UNCHANGED nvars
    /\ UNCHANGED <<evars, fvars, calls, op, args, loc, q>>

CHAIN == "421614"
MarketPlaceContractAddress == "0x204239c1A74e6d1D17A6FE52172f3F8D26597DB9"

ListingsKey(chainID, contractAddress) == <<"farm_plot_listings", chainID, contractAddress>>

\* GetAllValidFarmPlotListings is called: the defaults, then the cache key.
CallListings ==
    /\ pc = "idle"
    /\ calls < MaxCalls
    /\ \E chainID \in {"", CHAIN}, contractAddress \in {"", MarketPlaceContractAddress} :
         LET ch == IF chainID = "" THEN CHAIN ELSE chainID
             ca == IF contractAddress = "" THEN MarketPlaceContractAddress ELSE contractAddress
         IN /\ args' = [chainID |-> chainID, contractAddress |-> contractAddress]
            /\ loc' = [key |-> ListingsKey(ch, ca)]
    /\ op' = "listings"
    /\ pc' = "exists"
    /\ calls' = calls + 1
    /\ log' = NewLog
    /\ ret' = <<>>
    /\ q' = <<>>
    /\ UNCHANGED nvars
    /\ UNCHANGED <<cache, evars, fvars>>

\* What the chain engine answers to get-all-valid: a failure or the listings.
Listing(i, a) == [id |-> FieldsOf(i), attr |-> a, uri |-> <<>>]
ListingResults ==
    {[ok |-> FALSE, result |-> <<>>], [ok |-> TRUE, result |-> <<>>],
     [ok |-> TRUE, result |-> <<Listing(1, <<>>)>>],
     [ok |-> TRUE, result |-> <<Listing(1, <<>>), Listing(2, RefGateway)>>]}

\* Does GetAllValidFarmPlotListings reach its cache.Set: not on the early
\* return for no listing, nor on the one for no listing with an image.
ListingsStored(recs) ==
    Len(recs) # 0 /\ WithImages("marketplace", recs, 1) # <<>>

\* The live pipeline of GetAllValidFarmPlotListings.
ListingsLive ==
    /\ pc = "engine"
    /\ op = "listings"
    /\ \E eng \in ListingResults, up \in BOOLEAN, setUp \in BOOLEAN :
         IF ~eng.ok
            THEN LET out == [val |-> ZeroResult, err |-> "error sending request"]
                 IN /\ ret' = out
                    /\ log' = [log EXCEPT !.chain = 1, !.live = out]
                    /\ cache' = cache
            ELSE \E outs \in Outcomes("marketplace", eng.result) :
                   LET e == EnrichFrom("marketplace", eng.result, 1, cache, outs, up)
                       res == [listings |-> e.result]
                       out == [val |-> res, err |-> NoErr]
                       stored == ListingsStored(eng.result)
                   IN /\ ret' = out
                      /\ cache' = IF stored THEN CacheSet(e.cache, loc.key, Marshal(res), setUp)
                                  ELSE e.cache
                      /\ log' = [log EXCEPT !.chain = 1,
                                            !.fetches = e.fetches,
                                            !.sets = IF stored THEN @ \cup {loc.key} ELSE @,
                                            !.cacheFailed = @ \/ (stored /\ ~setUp)
                                                              \/ (e.fetches # {} /\ ~up),
                                            !.live = out]
    /\ pc' = "returned"
    /\ UNCHANGED nvars
    /\ UNCHANGED <<evars, fvars, calls, op, args, loc, q>>

\* The caller has the answer; the next operation may be called.
Finish ==
    /\ pc = "returned"
    /\ pc' = "idle"
    /\ op' = "none"
    /\ args' = <<>>
    /\ loc' = <<>>
    /\ q' = <<>>
    /\ ret' = <<>>
    /\ log' = <<>>
    /\ UNCHANGED nvars
    /\ UNCHANGED <<cache, evars, fvars, calls>>

Next ==
    \/ CallFarmScans
    \/ \E o \in PortfolioOps : CallPortfolio(o)
    \/ CallListings
    \/ CacheExistsStep
    \/ CacheGetStep
    \/ Expire
    \/ FarmQueries
    \/ FarmScansFinish
    \/ PortfolioLive
    \/ ListingsLive
    \/ Finish

Spec == InitEnrich /\ [][Next]_vars

\* One call of GetFarmScans on a cold cache, by a caller in the service or
\* through its route, its four query goroutines interleaved.
NextQueries ==
    \/ CallFarmScans
    \/ ScansRoute
    \/ CacheExistsStep
    \/ \E n \in QueryNames : QueryReturn(n)
    \/ QueriesJoin
    \/ FarmScansFinish

SpecQueries == InitEnrich /\ [][NextQueries]_vars

----------------------------------------------------------------------------
(* The pagination metadata of GetFarmScans on its own, over counts, pages   *)
(* and limits larger than those of the store of Spec.                       *)

\* Bound: the largest count a count query returns.
MaxTotal == 5

\* The tail of GetFarmScans after the image pass, for the totals read from the
\* two count queries and an effective page and limit.
PaginationCall ==
    /\ pc = "idle"
    /\ op = "none"
    /\ \E page \in 1..(MaxPage + 1), limit \in 1..(MaxLimit + 1),
          plantTotal \in 0..MaxTotal, soilTotal \in 0..MaxTotal :
         /\ args' = [page |-> page, limit |-> limit,
                     plantTotal |-> plantTotal, soilTotal |-> soilTotal]
         /\ ret' = [val |-> Pagination(page, limit, plantTotal, soilTotal), err |-> NoErr]
    /\ op' = "pagination"
    /\ pc' = "returned"
    /\ UNCHANGED nvars
    /\ UNCHANGED <<cache, evars, fvars, calls, loc, q, log>>

SpecPagination == InitEnrich /\ [][PaginationCall]_vars

\* What GetFarmScans computes from a store with plantTotal plant scans and
\* soilTotal soil readings (one row per reading): the ranks of the rows of
\* the two paged queries and the pagination.
LiveScans(page, limit, plantTotal, soilTotal) ==
    LET p == FarmScansParams(page, limit)
    IN [plantScans |-> PageRanks(plantTotal, p.offset, p.limit),
        soilReadings |-> PageRanks(soilTotal, p.offset, p.limit),
        pagination |-> Pagination(p.page, p.limit, plantTotal, soilTotal)]

\* GetFarmScans for a page and, the store unchanged, for the page after it.
ScanPages ==
    /\ pc = "idle"
    /\ op = "none"
    /\ \E page \in 1..(MaxPage + 1), limit \in 1..(MaxLimit + 1),
          plantTotal \in 0..MaxTotal, soilTotal \in 0..MaxTotal :
         /\ args' = [page |-> page, limit |-> limit,
                     plantTotal |-> plantTotal, soilTotal |-> soilTotal]
         /\ ret' = [val |-> LiveScans(page, limit, plantTotal, soilTotal),
                    next |-> LiveScans(page + 1, limit, plantTotal, soilTotal)]
    /\ op' = "scanpages"
    /\ pc' = "returned"
    /\ UNCHANGED nvars
    /\ UNCHANGED <<cache, evars, fvars, calls, loc, q, log>>

SpecPages == InitEnrich /\ [][ScanPages]_vars

----------------------------------------------------------------------------
(* FetchImageBytes on its own: any sequence of calls over the image cache.  *)

\* The URLs the passes fetch, and the empty one.
FetchUrls ==
    {<<>>, BuildIpfsUri("farm", RefIpfs), BuildIpfsUri("marketplace", RefGateway)}

\* One call of FetchImageBytes: args keeps the input, the outcome of each cache
\* command and of the HTTP request, and the cache as the call found it; ret
\* keeps what the call returned and the cache as the call left it.
FetchCall ==
    /\ op \in {"none", "fetch"}
    /\ \E url \in FetchUrls, exUp \in BOOLEAN, getUp \in BOOLEAN, setUp \in BOOLEAN,
          net \in NetOutcomes :
         LET r == FetchImageBytes(url, cache, exUp, getUp, net, setUp)
         IN /\ args' = [url |-> url, exUp |-> exUp, getUp |-> getUp, setUp |-> setUp,
                        net |-> net, before |-> cache]
            /\ ret' = [bytes |-> r.bytes, err |-> r.err, net |-> r.net, cache |-> r.cache]
            /\ cache' = r.cache
    /\ op' = "fetch"
    /\ pc' = "returned"
    /\ UNCHANGED nvars
    /\ UNCHANGED <<evars, fvars, calls, loc, q, log>>

\* An image entry reaches its TTL of one hour.
ExpireImage ==
    /\ op = "fetch"
    /\ \E key \in DOMAIN cache : cache' = [k \in DOMAIN cache \ {key} |-> cache[k]]
    /\ UNCHANGED nvars
    /\ UNCHANGED <<evars, fvars, ovars>>

NextFetch == FetchCall \/ ExpireImage

SpecFetch == InitEnrich /\ [][NextFetch]_vars

----------------------------------------------------------------------------
(* The wallet login: GenerateNonce, concurrent calls of VerifySignature and *)
(* CleanupExpiredNonces over the nonce store.                               *)

NonceExpirationSeconds == 300

\* Bounds: the step of the clock and its last value.
TickSeconds == 200
MaxTime == 400

\* The wallet address as clients write it, and strings.ToLower of it.
WalletInputs == {"0xABC", "0xabc"}
ToLower(w) == IF w = "0xABC" THEN "0xabc" ELSE w
EqualFold(a, b) == ToLower(a) = ToLower(b)

\* A signature: not decodable (ok FALSE), or made by signer over the
\* personal_sign message of nonce msg.
Signatures ==
    {[ok |-> FALSE, signer |-> "", msg |-> 0]} \cup
    {[ok |-> TRUE, signer |-> a, msg |-> n] : a \in {"0xABC", "0xBAD"}, n \in 1..MaxNonces}

\* crypto.SigToPub and PubkeyToAddress over the message of the nonce given:
\* the signer when that is the message signed, another address otherwise.
Recover(sig, nonce) == IF sig.msg = nonce THEN sig.signer ELSE "0x0"

\* fmt.Sprintf("%s:%d", nonce, time.Now().Unix()), as strings.Split(stored, ":")
\* takes it apart.
Stored(nonce, ts) == <<nonce, ts>>

\* GenerateNonce(wallet): a fresh nonce replaces the one stored for the wallet.
GenerateNonce(w) ==
    /\ issued < MaxNonces
    /\ issued' = issued + 1
    /\ nonceStore' = [k \in DOMAIN nonceStore \cup {ToLower(w)} |->
                         IF k = ToLower(w) THEN Stored(issued + 1, now) ELSE nonceStore[k]]
    /\ issuedAt' = [issuedAt EXCEPT ![issued + 1] = now]
    /\ UNCHANGED <<cache, evars, fvars, ovars, now, vpc, vin, okCount, vlast>>

\* VerifySignature, first part: the stored nonce is read under the read lock.
VerifyRead(p) ==
    /\ vpc[p] = "idle"
    /\ \E w \in WalletInputs, n \in 1..MaxNonces, sig \in Signatures :
         LET wallet == ToLower(w)
             exists == wallet \in DOMAIN nonceStore
         IN vin' = [vin EXCEPT ![p] =
                       [walletAddress |-> wallet, nonce |-> n, sig |-> sig, exists |-> exists,
                        stored |-> IF exists THEN nonceStore[wallet] ELSE <<>>]]
    /\ vpc' = [vpc EXCEPT ![p] = "read"]
    /\ UNCHANGED <<cache, evars, fvars, ovars, nonceStore, now, issued, okCount, issuedAt, vlast>>

\* Mutant of VerifyOutcome: the timestamp is not looked at.
VerifyOutcomeNoExpiry(in, t) ==
    IF ~in.exists
       THEN [ok |-> FALSE, err |-> "nonce not found or expired", delete |-> FALSE]
    ELSE IF in.stored[1] # in.nonce
       THEN [ok |-> FALSE, err |-> "nonce mismatch", delete |-> FALSE]
    ELSE IF ~in.sig.ok
       THEN [ok |-> FALSE, err |-> "invalid signature hex", delete |-> FALSE]
    ELSE IF EqualFold(Recover(in.sig, in.nonce), in.walletAddress)
       THEN [ok |-> TRUE, err |-> NoErr, delete |-> TRUE]
    ELSE [ok |-> FALSE, err |-> NoErr, delete |-> FALSE]

\* Mutant of VerifyOutcome: the entry is deleted before the signature is
\* looked at.
VerifyOutcomeDeletesFirst(in, t) ==
    IF ~in.exists
       THEN [ok |-> FALSE, err |-> "nonce not found or expired", delete |-> FALSE]
    ELSE IF in.stored[1] # in.nonce
       THEN [ok |-> FALSE, err |-> "nonce mismatch", delete |-> FALSE]
    ELSE IF t - in.stored[2] > NonceExpirationSeconds
       THEN [ok |-> FALSE, err |-> "nonce expired", delete |-> TRUE]
    ELSE IF ~in.sig.ok
       THEN [ok |-> FALSE, err |-> "invalid signature hex", delete |-> TRUE]
    ELSE IF EqualFold(Recover(in.sig, in.nonce), in.walletAddress)
       THEN [ok |-> TRUE, err |-> NoErr, delete |-> TRUE]
    ELSE [ok |-> FALSE, err |-> NoErr, delete |-> TRUE]

\* VerifySignature after the read: what it returns and whether it deletes the
\* entry of the wallet, from its local copy and the clock.
VerifyOutcome(in, t) ==
    IF ~in.exists
       THEN [ok |-> FALSE, err |-> "nonce not found or expired", delete |-> FALSE]
    ELSE IF Len(in.stored) # 2
       THEN [ok |-> FALSE, err |-> "invalid nonce format", delete |-> FALSE]
    ELSE IF in.stored[1] # in.nonce
       THEN [ok |-> FALSE, err |-> "nonce mismatch", delete |-> FALSE]
    ELSE IF t - in.stored[2] > NonceExpirationSeconds
       THEN [ok |-> FALSE, err |-> "nonce expired", delete |-> TRUE]
    ELSE IF ~in.sig.ok
       THEN [ok |-> FALSE, err |-> "invalid signature hex", delete |-> FALSE]
    ELSE IF EqualFold(Recover(in.sig, in.nonce), in.walletAddress)
       THEN [ok |-> TRUE, err |-> NoErr, delete |-> TRUE]
    ELSE [ok |-> FALSE, err |-> NoErr, delete |-> FALSE]

\* VerifySignature, second part: the checks on the local copy, then under the
\* write lock delete(nonceStore, walletAddress), and the return.
VerifyFinish(p) ==
    /\ vpc[p] = "read"
    /\ LET out == VerifyOutcome(vin[p], now)
           wallet == vin[p].walletAddress
       IN /\ nonceStore' = IF out.delete
                              THEN [k \in DOMAIN nonceStore \ {wallet} |-> nonceStore[k]]
                              ELSE nonceStore
          /\ okCount' = IF out.ok
                           THEN [okCount EXCEPT ![vin[p].nonce] = Min(@ + 1, 2)]
                           ELSE okCount
          /\ vlast' = [ok |-> out.ok, err |-> out.err,
                       old |-> /\ issuedAt[vin[p].nonce] >= 0
                               /\ now - issuedAt[vin[p].nonce] > NonceExpirationSeconds,
                       matched |-> vin[p].exists /\ vin[p].stored[1] = vin[p].nonce,
                       stale |-> /\ issuedAt[vin[p].nonce] >= 0
                                 /\ wallet \in DOMAIN nonceStore
                                 /\ nonceStore[wallet][1] # vin[p].nonce,
                       gone |-> wallet \notin DOMAIN nonceStore',
                       changed |-> nonceStore' # nonceStore]
    /\ vpc' = [vpc EXCEPT ![p] = "idle"]
    /\ vin' = [vin EXCEPT ![p] = <<>>]
    /\ UNCHANGED <<cache, evars, fvars, ovars, now, issued, issuedAt>>

\* Time passes.
Tick ==
    /\ now < MaxTime
    /\ now' = now + TickSeconds
    /\ UNCHANGED <<cache, evars, fvars, ovars, nonceStore, issued, vpc, vin, okCount, issuedAt, vlast>>

\* CleanupExpiredNonces, under the write lock.
CleanupExpiredNonces ==
    /\ \E k \in DOMAIN nonceStore : now - nonceStore[k][2] > NonceExpirationSeconds
    /\ nonceStore' = [k \in {w \in DOMAIN nonceStore :
                                ~(now - nonceStore[w][2] > NonceExpirationSeconds)} |->
                         nonceStore[k]]
    /\ UNCHANGED <<cache, evars, fvars, ovars, now, issued, vpc, vin, okCount, issuedAt, vlast>>

NextNonce ==
    \/ \E w \in WalletInputs : GenerateNonce(w)
    \/ \E p \in Verifiers : VerifyRead(p)
    \/ \E p \in Verifiers : VerifyFinish(p)
    \/ Tick
    \/ CleanupExpiredNonces

SpecNonce == InitEnrich /\ [][NextNonce]_vars

\* One call of VerifySignature followed through its two parts, the store
\* changing under it: GenerateNonce, CleanupExpiredNonces, the clock, and
\* the delete(nonceStore, walletAddress) of any overlapping call.
Observed == CHOOSE p \in Verifiers : \A r \in Verifiers : p <= r

OtherCallDeletes ==
    /\ \E wallet \in DOMAIN nonceStore :
         nonceStore' = [k \in DOMAIN nonceStore \ {wallet} |-> nonceStore[k]]
    /\ UNCHANGED <<cache, evars, fvars, ovars, now, issued, vpc, vin, okCount, issuedAt, vlast>>

NextVerify ==
    \/ \E w \in WalletInputs : GenerateNonce(w)
    \/ VerifyRead(Observed)
    \/ VerifyFinish(Observed)
    \/ OtherCallDeletes
    \/ Tick
    \/ CleanupExpiredNonces

SpecVerify == InitEnrich /\ [][NextVerify]_vars

----------------------------------------------------------------------------
(* The HTTP routes in front of the services: the dev bypass check, the     *)
(* authentication middleware, and the handlers of the farm, marketplace    *)
(* and portfolio routes.                                                   *)

FarmListPath == "/api/farm/list"
ValidFarmPlotsPath == "/api/marketplace/valid-farmplots"
BuyFromListingPath == "/api/marketplace/buy-from-listing"

\* os.Getenv("DEV_BYPASS_TOKEN"): not configured, or a secret.
DevEnvTokens == {"", "dev_secret"}

\* What a client sends in X-Dev-Bypass-Token or ?dev_bypass_token=: nothing,
\* the secret, or something else.
BypassValues == {"", "dev_secret", "guess"}

\* The Authorization header: absent, a token, or "Bearer " and a token.
BEARER == "Bearer "
AuthorizationHeaders ==
    {<<>>} \cup {<<t>> : t \in Tokens} \cup {<<BEARER, t>> : t \in Tokens}

\* The buyer a client writes in the body of a purchase.
BodyBuyers == {"", "u1", "0xMallory"}

Requests ==
    [authorization : AuthorizationHeaders, bypassHeader : BypassValues,
     bypassQuery : BypassValues, buyer : BodyBuyers]

CheckDevBypass(req, devBypassToken) ==
    IF devBypassToken = "" THEN FALSE
    ELSE IF req.bypassHeader = devBypassToken THEN TRUE
    ELSE IF req.bypassQuery = devBypassToken THEN TRUE
    ELSE FALSE

\* token[7:] when the header is longer than "Bearer " and starts with it.
StripBearer(h) == IF Len(h) > 1 /\ h[1] = BEARER THEN Tail(h) ELSE h

\* AuthMiddleware: whether the handler runs (next), the response when it does
\* not, and the locals it sets.
AuthMiddleware(req, devBypassToken, found) ==
    IF CheckDevBypass(req, devBypassToken)
       THEN [next |-> TRUE, status |-> 200, error |-> NoErr,
             isDev |-> TRUE, username |-> "dev_user"]
    ELSE IF req.authorization = <<>>
       THEN [next |-> FALSE, status |-> 401, error |-> "Authorization header is required",
             isDev |-> FALSE, username |-> ""]
    ELSE LET v == VerifyAccessToken(StripBearer(req.authorization)[1], found)
         IN IF v.err # NoErr
               THEN [next |-> FALSE, status |-> 401, error |-> "Invalid or expired token",
                     isDev |-> FALSE, username |-> ""]
               ELSE [next |-> TRUE, status |-> 200, error |-> NoErr,
                     isDev |-> FALSE, username |-> v.username]

ExtractToken(req, locals) ==
    IF locals.isDev THEN "dev_bypass_authorized"
    ELSE LET h == StripBearer(req.authorization)
         IN IF h = <<>> THEN "" ELSE h[1]

\* The response of a route and what happened behind it: executed, the service
\* function was called; token, the token it was given; submitted, the
\* purchases posted to the engine.
Response(status, error, executed, token, submitted) ==
    [status |-> status, error |-> error, executed |-> executed, token |-> token,
     submitted |-> submitted]

\* GetFarmList takes no token; dbOk: does the graph query succeed.
GetFarmList(dbOk) ==
    IF dbOk THEN NoErr ELSE "database query failed"

\* GetValidFarmPlotListings; listings: "ok", "error" or "empty", the outcome of
\* GetAllValidFarmPlotListings.
ListingsOutcomes == {"ok", "error", "empty"}
GetValidFarmPlotListings(token, found, listings) ==
    LET v == IF token = "dev_bypass_authorized"
                THEN NoErr ELSE VerifyAccessToken(token, found).err
    IN IF v # NoErr THEN v
       ELSE IF listings = "error" THEN "engine error"
       ELSE IF listings = "empty" THEN "no farm plot listings available"
       ELSE NoErr

\* BuyFromListing: the error returned and the payloads posted to the engine.
BuyFromListing(token, req, found, engineOk) ==
    LET v == VerifyAccessToken(token, found)
        unauthorized == token # "dev_bypass_authorized" /\ v.err # NoErr
        buyer == IF token = "dev_bypass_authorized" THEN req.buyer ELSE v.username
    IN IF unauthorized
          THEN [err |-> "unauthorized", submitted |-> <<>>]
          ELSE [err |-> IF engineOk THEN NoErr ELSE "API request failed",
                submitted |-> <<[listingId |-> "1", quantity |-> "1", buyer |-> buyer]>>]

\* In args, found is what the user lookup of the middleware's verification
\* returns (FALSE on the routes without middleware).

\* GET /api/farm/list: the group has no middleware.
FarmListRoute ==
    /\ pc = "idle"
    /\ \E req \in Requests, devBypassToken \in DevEnvTokens, dbOk \in BOOLEAN :
         LET err == GetFarmList(dbOk)
         IN /\ args' = [path |-> FarmListPath, req |-> req, env |-> devBypassToken,
                        found |-> FALSE]
            /\ ret' = Response(IF err # NoErr THEN 401 ELSE 200, err, TRUE, "", <<>>)
    /\ op' = "request"
    /\ pc' = "returned"
    /\ UNCHANGED nvars
    /\ UNCHANGED <<cache, evars, fvars, calls, loc, q, log>>

\* GET /api/marketplace/valid-farmplots, behind AuthMiddleware.  found and
\* found2: does the user lookup of each verification return the user.
ValidFarmPlotsRoute ==
    /\ pc = "idle"
    /\ \E req \in Requests, devBypassToken \in DevEnvTokens, found \in BOOLEAN,
          found2 \in BOOLEAN, listings \in ListingsOutcomes :
         LET m == AuthMiddleware(req, devBypassToken, found)
             token == ExtractToken(req, m)
             err == GetValidFarmPlotListings(token, found2, listings)
         IN /\ args' = [path |-> ValidFarmPlotsPath, req |-> req, env |-> devBypassToken,
                        found |-> found]
            /\ ret' = IF ~m.next THEN Response(m.status, m.error, FALSE, "", <<>>)
                      ELSE Response(IF err # NoErr THEN 400 ELSE 200, err, TRUE, token, <<>>)
    /\ op' = "request"
    /\ pc' = "returned"
    /\ UNCHANGED nvars
    /\ UNCHANGED <<cache, evars, fvars, calls, loc, q, log>>

\* POST /api/marketplace/buy-from-listing, behind AuthMiddleware.  parses:
\* does c.BodyParser accept the body.
BuyFromListingRoute ==
    /\ pc = "idle"
    /\ \E req \in Requests, devBypassToken \in DevEnvTokens, found \in BOOLEAN,
          found2 \in BOOLEAN, engineOk \in BOOLEAN, parses \in BOOLEAN :
         LET m == AuthMiddleware(req, devBypassToken, found)
             token == ExtractToken(req, m)
             r == BuyFromListing(token, req, found2, engineOk)
         IN /\ args' = [path |-> BuyFromListingPath, req |-> req, env |-> devBypassToken,
                        found |-> found]
            /\ ret' = IF ~m.next THEN Response(m.status, m.error, FALSE, "", <<>>)
                      ELSE IF ~parses THEN Response(400, "invalid request", FALSE, "", <<>>)
                      ELSE Response(IF r.err # NoErr THEN 400 ELSE 200, r.err, TRUE,
                                    token, r.submitted)
    /\ op' = "request"
    /\ pc' = "returned"
    /\ UNCHANGED nvars
    /\ UNCHANGED <<cache, evars, fvars, calls, loc, q, log>>

\* GetPortFolioSummary and GetEntirePortfolio as the route sees them: the
\* error of the verification, or of the engine.
PortfolioService(token, found, engineOk) ==
    LET v == VerifyAccessToken(token, found)
    IN IF v.err # NoErr THEN v.err
       ELSE IF ~engineOk THEN "engine error"
       ELSE NoErr

PortfolioPaths == {"/api/portfolio/summary", "/api/portfolio/entire"}

\* GET /api/portfolio/summary and /entire, behind AuthMiddleware.
PortfolioRoute ==
    /\ pc = "idle"
    /\ \E path \in PortfolioPaths, req \in Requests, devBypassToken \in DevEnvTokens,
          found \in BOOLEAN, found2 \in BOOLEAN, engineOk \in BOOLEAN :
         LET m == AuthMiddleware(req, devBypassToken, found)
             token == ExtractToken(req, m)
             err == PortfolioService(token, found2, engineOk)
         IN /\ args' = [path |-> path, req |-> req, env |-> devBypassToken,
                        found |-> found]
            /\ ret' = IF ~m.next THEN Response(m.status, m.error, FALSE, "", <<>>)
                      ELSE Response(IF err # NoErr THEN 401 ELSE 200, err, TRUE, token, <<>>)
    /\ op' = "request"
    /\ pc' = "returned"
    /\ UNCHANGED nvars
    /\ UNCHANGED <<cache, evars, fvars, calls, loc, q, log>>

FarmScansPath == "/api/farm/scans/:farmName"

\* GET /api/farm/scans/:farmName: no middleware; the page and the limit are
\* read as RouteScansArgs reads them.  dbOk: do the queries of GetFarmScans
\* succeed.
FarmScansRoute ==
    /\ pc = "idle"
    /\ \E req \in Requests, devBypassToken \in DevEnvTokens, dbOk \in BOOLEAN :
         /\ args' = [path |-> FarmScansPath, req |-> req, env |-> devBypassToken,
                        found |-> FALSE]
         /\ ret' = Response(IF dbOk THEN 200 ELSE 500,
                            IF dbOk THEN NoErr ELSE "database query failed", TRUE, "", <<>>)
    /\ op' = "request"
    /\ pc' = "returned"
    /\ UNCHANGED nvars
    /\ UNCHANGED <<cache, evars, fvars, calls, loc, q, log>>

\* The class of a failure, from the error the route answers with: a failed
\* identity verification, a malformed request, or anything else (the graph
\* store, the chain engine, an empty result).
FailureClass(err) ==
    IF err \in {"Authorization header is required", "Invalid or expired token",
                "invalid token", "user does not exist", "unauthorized"}
       THEN "auth"
    ELSE IF err = "invalid request" THEN "validation"
    ELSE "query"

NextRoutes ==
    \/ FarmListRoute
    \/ ValidFarmPlotsRoute
    \/ BuyFromListingRoute
    \/ PortfolioRoute
    \/ FarmScansRoute

SpecRoutes == InitEnrich /\ [][NextRoutes]_vars

----------------------------------------------------------------------------
(* The resolver on its own: BuildIpfsUri of a call site applied to a       *)
(* reference, then to its own result.                                      *)

\* Bounds: tokens in a reference drawn freely, in the identifier of a
\* gateway URL and in its path after /ipfs/.
MaxRefLen == 3
MaxIdLen == 2
MaxPathLen == 2

RefTokens == {HTTPS, HTTP, IPFS, SEP, CDNHOST, IPFSPATH, QM, "h44", "old", ClientID}

\* Tokens of a gateway identifier: text without the gateway host.
IdTokens == {"old", ClientID}

SeqsUpTo(S, n) == UNION {[1..m -> S] : m \in 0..n}

\* https://<id>.ipfscdn.io/ipfs/<path>
GatewayUrl(id, path) == <<HTTPS>> \o id \o <<CDNHOST, IPFSPATH>> \o path

GatewayIds == SeqsUpTo(IdTokens, MaxIdLen)
GatewayPaths == SeqsUpTo(RefTokens, MaxPathLen)

References ==
    SeqsUpTo(RefTokens, MaxRefLen) \cup
    {GatewayUrl(id, path) : id \in GatewayIds, path \in GatewayPaths} \cup
    {<<IPFS>> \o path : path \in GatewayPaths} \cup
    {<<QM, "h44">> \o path : path \in GatewayPaths}

\* A call site resolves a reference.
Resolve ==
    /\ pc = "idle"
    /\ \E site \in Kinds, ref \in References :
         /\ args' = [site |-> site, ref |-> ref]
         /\ ret' = [url |-> BuildIpfsUri(site, ref), twice |-> <<>>]
    /\ op' = "resolve"
    /\ pc' = "resolved"
    /\ UNCHANGED nvars
    /\ UNCHANGED <<cache, evars, fvars, calls, loc, q, log>>

\* The same call site resolves the result.
ResolveAgain ==
    /\ op = "resolve"
    /\ pc = "resolved"
    /\ ret' = [ret EXCEPT !.twice = BuildIpfsUri(args.site, ret.url)]
    /\ pc' = "returned"
    /\ UNCHANGED nvars
    /\ UNCHANGED <<cache, evars, fvars, calls, op, args, loc, q, log>>

NextResolve == Resolve \/ ResolveAgain

SpecResolve == InitEnrich /\ [][NextResolve]_vars

----------------------------------------------------------------------------
(* Properties of one enrichment call (SpecEnrich).                         *)

Returned == epc = "returned"

\* C1. Positional integrity: when the enrichment call returns, the result has
\* one slot per input record and slot i carries the non-image fields of input
\* record i, whatever the subset of records with a reference and whatever the
\* order in which the fetches completed.
C1_PositionalIntegrity ==
    Returned =>
        /\ Len(result) = Len(records)
        /\ \A i \in 1..Len(records) : result[i].fields = records[i].id

\* A call of each kind of pass can return after its second task completed first.
C1_Witness ==
    /\ Returned
    /\ kind = "farm"
    /\ Len(records) = 2
    /\ order = <<2, 1>>
    /\ fres[2] = "ok"

\* The image a slot must hold given only its own record and its own fetch.
ExpectedImage(i) ==
    IF fres[i] = "ok"
       THEN BytesAt(BuildIpfsUri(kind, ImageRef(kind, records[i])))
       ELSE NilBytes

\* C3. Partial-failure containment: the call returns a result whatever fetch
\* failed; a slot whose fetch failed keeps its non-image fields and the empty
\* image; every task with a reference got its answer (none was cancelled); and
\* every slot is determined by its own record and its own fetch alone.
C3_PartialFailureContained ==
    Returned =>
        \A i \in 1..Len(records) :
            /\ result[i].fields = records[i].id
            /\ result[i].image = ExpectedImage(i)
            /\ fres[i] = "err" => result[i].image = NilBytes
            /\ (HasTask(kind, records[i]) /\ ImageRef(kind, records[i]) # <<>>)
                   => fres[i] \in {"ok", "err"}

\* A call returned with one fetch failed and another, completed later, succeeded.
C3_Witness ==
    /\ Returned
    /\ Len(records) = 2
    /\ fres[1] = "err"
    /\ fres[2] = "ok"
    /\ order = <<1, 2>>

\* C4. Join before return: when the call returns, every task it launched has
\* finished and the semaphore holds no element.
C4_JoinBeforeReturn ==
    Returned =>
        /\ \A i \in 1..Len(records) :
              task[i] = (IF HasTask(kind, records[i]) THEN "done" ELSE "none")
        /\ sem = 0
        /\ wg = 0

\* A gated call returned after a failed and a successful fetch.
C4_Witness ==
    /\ Returned
    /\ Gated(kind)
    /\ Len(records) = 2
    /\ fres[1] = "ok"
    /\ fres[2] = "err"

----------------------------------------------------------------------------
(* Properties of the gate (SpecFanout, FairFanout).                        *)

\* C2. Bounded fan-out: in every enrichment pass at most maxConcurrentFetches
\* image fetches are in progress at any moment.
C2_BoundedFanout == cnt.fetching <= maxConcurrentFetches

\* C5. Enrichment terminates: given that every fetch returns and that runnable
\* goroutines run, a call that launched its tasks returns, also with more
\* tasks than the semaphore has slots.
C5_EnrichmentTerminates == (epc = "launching") ~> (epc = "returned")

\* A gated call over more records than the semaphore has slots returned.
C5_Witness ==
    /\ epc = "returned"
    /\ Gated(kind)
    /\ ntasks > maxConcurrentFetches
    /\ cnt.done = ntasks

----------------------------------------------------------------------------
(* Properties of the read-through operations (Spec).                       *)

\* C6, as it holds: on a cache hit (cache.Exists true and cache.Get without
\* error) the operation returns the cached value with no error and runs none of
\* its live pipeline: none of the data queries of the graph store, no call to
\* the chain engine, no image fetch, no cache.Set.  (The portfolio operations
\* have verified the token before the cache is consulted.)
C6_CacheHitShortCircuit ==
    (pc = "returned" /\ log.hit) =>
        /\ ret.err = NoErr
        /\ loc.key \in DOMAIN cache
        /\ cache[loc.key] = Marshal(ret.val)
        /\ ~log.ran
        /\ log.graph = 0
        /\ log.chain = 0
        /\ log.fetches = {}
        /\ log.sets = {}

\* C6, as stated: on a cache hit the operation has queried the graph store
\* not at all, the user lookup of the token verification included.
C6_HitWithoutAnyStoreQuery ==
    (pc = "returned" /\ log.hit) => (log.graph = 0 /\ log.idq = 0)

C6_Witness ==
    /\ pc = "returned"
    /\ log.hit
    /\ op = "farmscans"
    /\ Len(ret.val.plantScans) > 0

\* C7: an operation that missed the cache and whose live pipeline succeeded
\* has called cache.Set with the key of the request before it returns.
C7_StoreBeforeReturn ==
    (pc = "returned" /\ ~log.hit /\ log.ran /\ ret.err = NoErr) => loc.key \in log.sets

\* C8: when a cache command of the call failed (Exists, Get or Set, in the
\* operation or in a FetchImageBytes of its image pass), the live pipeline has
\* run and the call returns what the pipeline produced; a FetchImageBytes
\* whose cache commands fail returns exactly the outcome of its HTTP request.
C8_CacheFailureNotFatal ==
    (pc = "returned" /\ log.cacheFailed) =>
        /\ log.ran
        /\ ret = log.live
        /\ \A f \in log.fetches :
             ~f.up => /\ f.net
                      /\ (f.err = NoErr) <=> f.ok
                      /\ f.ok => f.bytes = BytesAt(f.url)

C8_Witness ==
    /\ pc = "returned"
    /\ log.cacheFailed
    /\ ret.err = NoErr
    /\ \E f \in log.fetches : ~f.up /\ f.ok

\* C9: when one of the four queries of GetFarmScans failed, the call returns
\* an error and the zero result, has fetched no image and has not called
\* cache.Set; the image pass is never reached with a failed query.
C9_AllOrNothingQueries ==
    (op = "farmscans" /\ pc \in {"enrich", "returned"} /\ log.ran
        /\ \E n \in QueryNames : q[n] = "fail") =>
        /\ pc = "returned"
        /\ ret.err # NoErr
        /\ ret.val = ZeroResult
        /\ log.fetches = {}
        /\ log.sets = {}

C9_Witness ==
    /\ op = "farmscans"
    /\ pc = "returned"
    /\ log.ran
    /\ q["soilCount"] = "fail"
    /\ \A n \in QueryNames \ {"soilCount"} : q[n] = "ok"

\* The page and the limit GetFarmScans documents for arguments out of range.
ClampedPage(page) == IF page <= 0 THEN DefaultPage ELSE page
ClampedLimit(limit) == IF limit <= 0 THEN DefaultLimit ELSE limit

\* C10: a call of GetFarmScans uses the offset, the limit and the cache key
\* that the call with the clamped arguments uses.
C10_ClampNotReject ==
    (op = "farmscans" /\ pc # "idle") =>
        LET c == FarmScansParams(ClampedPage(args.page), ClampedLimit(args.limit))
        IN /\ loc.offset = c.offset
           /\ loc.limit = c.limit
           /\ loc.key = FarmScansKey(args.farm, c.page, c.limit)

\* C11: a request to the scans route with a limit above 100 is served with
\* the limit 100: in the store query, in the cache key and in the pagination.
C11_UpperLimitClamp ==
    (op = "farmscans" /\ pc # "idle" /\ "query" \in DOMAIN args
        /\ args.query.limit.set /\ args.query.limit.n > MaxRouteLimit) =>
        /\ loc.limit = MaxRouteLimit
        /\ loc.key = FarmScansKey(args.farm, loc.page, MaxRouteLimit)
        /\ (pc = "returned" /\ ret.err = NoErr) => ret.val.pagination.limit = MaxRouteLimit

\* C12: every entry stored under farm_scans:<farm>:page_<p>:limit_<l> holds
\* the plant scans of the page queried with offset (p-1)*l and limit l.
C12_KeyDeterminesPayload ==
    \A key \in DOMAIN cache :
        key[1] = "farm_scans" =>
            LET scans == Unmarshal(cache[key]).plantScans
                ranks == PageRanks(NPlants, (key[3] - 1) * key[4], key[4])
            IN [j \in 1..Len(scans) |-> scans[j].fields] =
               [j \in 1..Len(ranks) |-> PlantRecord(ranks[j]).id]

\* C13: for an effective page >= 1 and limit >= 1 the pagination has
\* total = max(plant count, soil count), totalPages = ceil(total / limit),
\* hasNext = (page < totalPages), hasPrevious = (page > 1); counts 5 and 3,
\* page 1, limit 2 give 5, 3, true, false; total 0 gives 0 pages and no next.
C13_PaginationMetadata ==
    (op = "pagination" /\ pc = "returned") =>
        LET p == ret.val
        IN /\ p.page = args.page /\ p.limit = args.limit
           /\ p.total >= args.plantTotal /\ p.total >= args.soilTotal
           /\ p.total \in {args.plantTotal, args.soilTotal}
           /\ p.totalPages * args.limit >= p.total
           /\ (p.totalPages - 1) * args.limit < p.total
           /\ p.hasNext <=> (args.page < p.totalPages)
           /\ p.hasPrevious <=> (args.page > 1)
           /\ (args.plantTotal = 5 /\ args.soilTotal = 3 /\ args.page = 1 /\ args.limit = 2)
                => (p.total = 5 /\ p.totalPages = 3 /\ p.hasNext /\ ~p.hasPrevious)
           /\ p.total = 0 => (p.totalPages = 0 /\ ~p.hasNext)

C13_Witness ==
    /\ op = "pagination"
    /\ pc = "returned"
    /\ args.plantTotal = 5 /\ args.soilTotal = 3 /\ args.page = 1 /\ args.limit = 2
    /\ ret.val.totalPages = 3

\* No record of the call carries an image reference.
NoImageInput ==
    /\ epc # "idle"
    /\ \A i \in 1..Len(records) : ImageRef(kind, records[i]) = <<>>

FetchFoundCached ==
    /\ args.url # <<>>
    /\ args.exUp /\ args.getUp
    /\ ImageKey(args.url) \in DOMAIN args.before
    /\ Len(args.before[ImageKey(args.url)]) > 0

\* C15: FetchImageBytes makes an HTTP request only for a non-empty URL for which
\* the cache gave it no non-empty value; the empty URL fails at once without a
\* request; a non-empty cached value is returned without a request.
C15_FetchConsultsCacheFirst ==
    (op = "fetch" /\ pc = "returned") =>
        /\ ret.net => (args.url # <<>> /\ ~FetchFoundCached)
        /\ args.url = <<>> =>
             (ret.err = FetchErrEmptyURI /\ ret.bytes = NilBytes /\ ~ret.net /\ ret.cache = args.before)
        /\ FetchFoundCached =>
             /\ ret.err = NoErr
             /\ ret.bytes = args.before[ImageKey(args.url)]
             /\ ~ret.net
             /\ ret.cache = args.before

C15_Witness ==
    /\ op = "fetch"
    /\ pc = "returned"
    /\ FetchFoundCached
    /\ args.net = "status500"
    /\ ret.err = NoErr

\* C16: a fetch that fails returns an error and leaves the cache as it was; a
\* fetch that succeeds over HTTP stores the bytes under the key of its URL
\* (when cache.Set succeeds); every value under an image key is the non-empty
\* byte sequence served at the URL of that key.
C16_ImageCacheOnlyOnSuccess ==
    /\ (op = "fetch" /\ pc = "returned") =>
          /\ (ret.net /\ args.net # "ok") => (ret.err # NoErr /\ ret.bytes = NilBytes)
          /\ ret.err # NoErr => ret.cache = args.before
          /\ (ret.net /\ ret.err = NoErr /\ args.setUp) =>
                /\ ImageKey(args.url) \in DOMAIN ret.cache
                /\ ret.cache[ImageKey(args.url)] = ret.bytes
                /\ \A key \in DOMAIN ret.cache \ {ImageKey(args.url)} :
                       key \in DOMAIN args.before /\ ret.cache[key] = args.before[key]
    /\ \A key \in DOMAIN cache :
          key[1] = "image" => (Len(cache[key]) > 0 /\ cache[key] = BytesAt(key[2]))

C16_Witness ==
    /\ op = "fetch"
    /\ pc = "returned"
    /\ args.net = "emptybody"
    /\ ret.net
    /\ ret.err # NoErr
    /\ Cardinality(DOMAIN cache) = 2

\* The subject a token verifies to.
Subject(token) == VerifyAccessToken(token, TRUE).username

\* C17: a portfolio operation verifies the token before it consults the cache;
\* its key is <category>:<verified subject>, never the raw token; what it
\* stores and what it returns from the cache belongs to the subject its token
\* verifies to; a token that fails verification gets an error, the cache not
\* consulted.
C17_IdentityScopedCache ==
    (op \in PortfolioOps /\ pc # "idle") =>
        /\ pc \in {"exists", "get", "engine"} =>
              /\ loc.key[1] = (IF op = "summary" THEN "portfolio" ELSE "entire_portfolio")
              /\ loc.key[2] = Subject(args.token)
              /\ loc.key[2] # args.token
        /\ log.sets # {} => log.sets = {<<loc.key[1], Subject(args.token)>>}
        /\ (pc = "returned" /\ log.hit) => ret.val.owner = Subject(args.token)
        /\ (pc = "returned" /\ ~log.hit /\ ret.err = NoErr) => ret.val.owner = Subject(args.token)
        /\ args.token = "jwt_bad" =>
              /\ pc = "returned"
              /\ ret.err # NoErr
              /\ ret.val = ZeroResult
              /\ ~log.hit /\ ~log.ran /\ ~log.cacheFailed
              /\ loc = <<>>

C17_Witness ==
    /\ op = "entire"
    /\ pc = "returned"
    /\ log.hit
    /\ args.token = "jwt_u1"
    /\ ret.val.owner = "u1"
    /\ Len(ret.val.farmPlotNFTs) = 2

\* C18: no nonce issued by GenerateNonce leads to more than one successful
\* VerifySignature, concurrent calls for the same wallet included.
C18_NonceSingleUse ==
    \A n \in 1..MaxNonces : okCount[n] <= 1

\* A request with no Authorization header and no dev-bypass token.
NoToken(req) ==
    req.authorization = <<>> /\ req.bypassHeader = "" /\ req.bypassQuery = ""

\* C19: GET /api/farm/list and GET /api/marketplace/valid-farmplots sent with
\* neither an Authorization header nor a dev-bypass token answer 401 and the
\* service function behind the route is not executed.
C19_NoTokenRejected ==
    (/\ op = "request"
     /\ pc = "returned"
     /\ args.path \in {FarmListPath, ValidFarmPlotsPath}
     /\ NoToken(args.req)) =>
        (ret.status = 401 /\ ~ret.executed)

\* C20: every purchase BuyFromListing posts to the engine has as buyer the
\* subject the token verifies to (the fixed development subject for the
\* bypass sentinel), whatever buyer the request body carried.
C20_BuyerIsVerifiedSubject ==
    (op = "request" /\ pc = "returned" /\ args.path = BuyFromListingPath) =>
        \A i \in 1..Len(ret.submitted) : ret.submitted[i].buyer = Subject(ret.token)

\* C21: a call site that resolves https://OLDID.<gateway-host>/ipfs/PATH, OLDID
\* a non-empty identifier, gets https://NEWID.<gateway-host>/ipfs/PATH, NEWID
\* the configured identifier and PATH unchanged.
C21_GatewayRewrite ==
    (op = "resolve" /\ pc # "idle") =>
        \A id \in GatewayIds \ {<<>>}, path \in GatewayPaths :
            args.ref = GatewayUrl(id, path) => ret.url = GatewayUrl(<<ClientID>>, path)

\* C22: at every call site, resolving the result of a resolution gives the
\* same result, for every reference; a gateway URL that already carries the
\* configured identifier resolves to itself.
C22_ResolveIdempotent ==
    (op = "resolve" /\ pc # "idle") =>
        /\ pc = "returned" => ret.twice = ret.url
        /\ HasPrefix(args.ref, GatewayUrl(<<ClientID>>, <<>>)) => ret.url = args.ref

C22_Witness ==
    /\ op = "resolve"
    /\ pc = "returned"
    /\ args.site = "marketplace"
    /\ args.ref = GatewayUrl(<<"old", "old">>, <<QM, "h44">>)
    /\ ret.url = GatewayUrl(<<ClientID>>, <<QM, "h44">>)
    /\ ret.twice = ret.url

\* C23: at every call site ipfs://X resolves to the configured gateway base
\* followed by X, a bare 46-character reference that starts with Qm and has
\* no protocol separator resolves as ipfs://<reference> does, the empty
\* reference resolves to the empty string, any other reference that is not
\* an HTTP(S) URL resolves to itself; and every call site gives the same URL.
C23_ContentAddressedResolution ==
    (op = "resolve" /\ pc # "idle") =>
        LET ref == args.ref
            base == GatewayUrl(<<ClientID>>, <<>>)
            isHttp == HasPrefix(ref, <<HTTP>>) \/ HasPrefix(ref, <<HTTPS>>)
            isIpfs == HasPrefix(ref, <<IPFS>>)
            isBare == ~HasSep(ref) /\ ByteLen(ref) = 46 /\ HasPrefix(ref, <<QM>>)
        IN /\ isIpfs => ret.url = base \o Tail(ref)
           /\ isBare => ret.url = base \o ref
           /\ ref = <<>> => ret.url = <<>>
           /\ (~isHttp /\ ~isIpfs /\ ~isBare) => ret.url = ref
           /\ \A site \in Kinds : BuildIpfsUri(site, ref) = ret.url

\* C24: a VerifySignature call never returns true for a nonce drawn more than
\* 300 seconds before; when the nonce it presents is the one it read from the
\* store and is that old, it returns "nonce expired" and the wallet has no
\* entry when it returns (so that a later call with that nonce finds none, or
\* another nonce, and the nonce is older still).
C24_NonceExpiry ==
    vlast.err # "none" =>
        /\ vlast.old => ~vlast.ok
        /\ (vlast.old /\ vlast.matched) =>
              (vlast.err = "nonce expired" /\ vlast.gone)
        /\ vlast.err = "nonce expired" => (vlast.old /\ vlast.gone)

C24_Witness ==
    /\ vlast.err = "nonce expired"
    /\ vlast.old
    /\ vlast.matched
    /\ vlast.changed
    /\ nonceStore = <<>>
    /\ now > NonceExpirationSeconds

\* C30: a VerifySignature call that returns false for a reason other than
\* expiry (no entry, nonce mismatch, a signature that does not decode, a
\* recovered address that is not the wallet) leaves the nonce store as it
\* found it when it returned.
C30_FailedVerifyKeepsStore ==
    (vlast.err # "none" /\ ~vlast.ok /\ vlast.err # "nonce expired") => ~vlast.changed

C30_Witness ==
    /\ ~vlast.ok
    /\ vlast.err = NoErr
    /\ vlast.matched
    /\ ~vlast.old
    /\ ~vlast.changed
    /\ \E wallet \in DOMAIN nonceStore :
          /\ okCount[nonceStore[wallet][1]] = 0
          /\ now - nonceStore[wallet][2] <= NonceExpirationSeconds

\* C27: the store holds at most one nonce per wallet, under the lower-case
\* address; a VerifySignature call that presents a nonce issued earlier, when
\* the wallet's entry holds another nonce at its return, fails and leaves the
\* store alone (the error it fails with is left open).
C27_LatestNonceOnly ==
    /\ \A k \in DOMAIN nonceStore : ToLower(k) = k
    /\ Cardinality(DOMAIN nonceStore) <= 1
    /\ vlast.stale => (~vlast.ok /\ ~vlast.changed)

\* C25: a route that answers with an error answers 401 when identity
\* verification failed, 400 when the request was malformed, and 500 for a
\* failure of the graph store, of the chain engine or of any other kind.
C25_FailureToStatus ==
    (op = "request" /\ pc = "returned" /\ ret.error # NoErr) =>
        ret.status = (CASE FailureClass(ret.error) = "auth" -> 401
                        [] FailureClass(ret.error) = "validation" -> 400
                        [] OTHER -> 500)

\* C26: in an enrichment call the launch loop ranges over every record with
\* an image reference exactly once (an NFT with an image attribute and a
\* metadata URI included) and over no index twice; every store into the
\* result slice is made by a launched task into the slot of its own index, so
\* no slot is stored into by two tasks.
C26_SingleWriterPerSlot ==
    epc # "idle" =>
        /\ \A i \in 1..Len(records) :
              /\ Cardinality({j \in 1..Len(Tasks) : Tasks[j] = i}) <= 1
              /\ ImageRef(kind, records[i]) # <<>> =>
                    Cardinality({j \in 1..Len(Tasks) : Tasks[j] = i}) = 1
        /\ Launched = {Tasks[j] : j \in 1..nlaunched}
        /\ \A a \in 1..Len(writes) :
              /\ writes[a].slot = writes[a].task
              /\ writes[a].task \in Launched
        /\ \A a, b \in 1..Len(writes) :
              writes[a].slot = writes[b].slot => writes[a].task = writes[b].task

C26_Witness ==
    /\ epc = "returned"
    /\ kind = "portfolio"
    /\ Len(records) = 2
    /\ \A i \in 1..2 : records[i].attr # <<>> /\ records[i].uri # <<>>
    /\ Tasks = <<1, 2>>
    /\ writes = <<[task |-> 2, slot |-> 2], [task |-> 1, slot |-> 1]>>

\* The routes behind AuthMiddleware, and the requests it passed on to the
\* handler: those it did not answer itself.
ProtectedPaths == {ValidFarmPlotsPath, BuyFromListingPath} \cup PortfolioPaths
PassedMiddleware ==
    ret.error \notin {"Authorization header is required", "Invalid or expired token"}

\* C28: with DEV_BYPASS_TOKEN not configured, a request that AuthMiddleware
\* passes on carries a JWT that verifies and names a user the graph store
\* has.
C28_NoBypassWithoutConfiguration ==
    (/\ op = "request"
     /\ pc = "returned"
     /\ args.path \in ProtectedPaths
     /\ args.env = ""
     /\ PassedMiddleware) =>
        (StripBearer(args.req.authorization) = <<"jwt_u1">> /\ args.found)

====
